---- MODULE Spec2Model ----
(***************************************************************************)
(* Model of the Station-Manager email service: the one-time Initialize     *)
(* gate, Send with its retry loop, the transport negotiator                *)
(* (sendMailWithTLS: implicit TLS, then plain TCP + STARTTLS), the SMTP    *)
(* protocol session (sendWithClient), validateConfig, and the composer     *)
(* (BuildEmailWithADIFAttachment).                                         *)
(*                                                                         *)
(* Strings are sequences of one-character strings, so that TrimSpace,      *)
(* Contains, JoinHostPort and SplitHostPort are computed as the code       *)
(* computes them. Counts of seconds and Durations are 64-bit two's         *)
(* complement numbers, so that a product wraps as the machine's does.      *)
(***************************************************************************)
EXTENDS Integers, Sequences, FiniteSets, TLC

\* ------------------------------------------------------------------ bounds
\* Largest configured SmtpRetryCount drawn for the config provider.
MaxRetry == 2
\* Largest number of recipients of a message handed to Send.
MaxRcpt == 2
\* Number of goroutines that call Initialize on the one Service instance.
NumCallers == 2

Callers == 1..NumCallers

\* ----------------------------------------------------------------- strings
RECURSIVE TrimLeft(_)
TrimLeft(s) ==
    IF s # <<>> /\ Head(s) = " " THEN TrimLeft(Tail(s)) ELSE s

RECURSIVE TrimRight(_)
TrimRight(s) ==
    IF s # <<>> /\ s[Len(s)] = " " THEN TrimRight(SubSeq(s, 1, Len(s) - 1)) ELSE s

\* strings.TrimSpace
TrimSpace(s) == TrimRight(TrimLeft(s))

\* strings.Contains(s, ch) for a one-character ch
Contains(s, ch) == \E i \in 1..Len(s) : s[i] = ch

\* index of the first / last occurrence of ch in s, 0 when absent
IndexByte(s, ch) ==
    IF Contains(s, ch) THEN CHOOSE i \in 1..Len(s) : s[i] = ch /\ \A j \in 1..(i - 1) : s[j] # ch
    ELSE 0

LastIndexByte(s, ch) ==
    IF Contains(s, ch) THEN CHOOSE i \in 1..Len(s) : s[i] = ch /\ \A j \in (i + 1)..Len(s) : s[j] # ch
    ELSE 0

Digit(d) == <<"0", "1", "2", "3", "4", "5", "6", "7", "8", "9">>[d + 1]

\* strconv.Itoa / fmt.Sprintf("%d", n)
RECURSIVE Itoa(_)
Itoa(n) ==
    IF n < 0 THEN <<"-">> \o Itoa(-n)
    ELSE IF n < 10 THEN <<Digit(n)>>
    ELSE Itoa(n \div 10) \o <<Digit(n % 10)>>

\* net.JoinHostPort: a host holding a colon or a percent sign is bracketed
JoinHostPort(host, port) ==
    IF Contains(host, ":") \/ Contains(host, "%")
    THEN <<"[">> \o host \o <<"]", ":">> \o port
    ELSE host \o <<":">> \o port

\* net.SplitHostPort: [ok, host, port]; ok = FALSE is the *AddrError
SplitFail == [ok |-> FALSE, host |-> <<>>, port |-> <<>>]

SplitHostPort(hostport) ==
    LET n == Len(hostport)
        i == LastIndexByte(hostport, ":")
        rest(k) == SubSeq(hostport, k, n)
    IN  IF i = 0 THEN SplitFail
        ELSE IF hostport[1] = "["
        THEN LET end == IndexByte(hostport, "]")
             IN  IF end = 0 THEN SplitFail
                 ELSE IF end + 1 # i THEN SplitFail
                 ELSE IF Contains(rest(2), "[") \/ Contains(rest(end + 1), "]")
                 THEN SplitFail
                 ELSE [ok |-> TRUE, host |-> SubSeq(hostport, 2, end - 1), port |-> rest(i + 1)]
        ELSE LET host == SubSeq(hostport, 1, i - 1)
             IN  IF Contains(host, ":") THEN SplitFail
                 ELSE IF Contains(hostport, "[") \/ Contains(hostport, "]")
                 THEN SplitFail
                 ELSE [ok |-> TRUE, host |-> host, port |-> rest(i + 1)]

\* ------------------------------------------------------------------- int64
\* A Go int (64 bits) or time.Duration (int64, in nanoseconds) is kept as its
\* two's complement representation: Limbs digits in base Base, low digit first,
\* so that a product wraps as the machine's does.
Limbs == 8
Base == 256

\* the k low digits of n >= 0
RECURSIVE LowLimbs(_, _)
LowLimbs(n, k) ==
    IF k = 0 THEN <<>> ELSE <<n % Base>> \o LowLimbs(n \div Base, k - 1)

\* the int64 of a small integer
I64(n) ==
    IF n >= 0 THEN LowLimbs(n, Limbs)
    ELSE [i \in 1..Limbs |-> (Base - 1) - LowLimbs((-n) - 1, Limbs)[i]]

\* the sum of a[i] * b[k + 1 - i] for i in 1..j
RECURSIVE Conv(_, _, _, _)
Conv(a, b, k, j) ==
    IF j = 0 THEN 0 ELSE a[j] * b[k + 1 - j] + Conv(a, b, k, j - 1)

\* the digits k..Limbs of a * b, carry being the carry into digit k; the carry out
\* of the last digit is dropped
RECURSIVE MulFrom(_, _, _, _)
MulFrom(a, b, k, carry) ==
    IF k > Limbs THEN <<>>
    ELSE LET t == Conv(a, b, k, k) + carry
         IN  <<t % Base>> \o MulFrom(a, b, k + 1, t \div Base)

\* a * b on int64
Mul64(a, b) == MulFrom(a, b, 1, 0)

Negative(a) == a[Limbs] >= Base \div 2

\* a < b, digit by digit from digit k down
RECURSIVE LtFrom(_, _, _)
LtFrom(a, b, k) ==
    IF k = 0 THEN FALSE
    ELSE IF a[k] # b[k] THEN a[k] < b[k]
    ELSE LtFrom(a, b, k - 1)

\* a < b on int64
Lt64(a, b) ==
    IF Negative(a) # Negative(b) THEN Negative(a) ELSE LtFrom(a, b, Limbs)

Zero64 == I64(0)

\* time.Second, and n * time.Second for a constant n
Second == I64(1000000000)
Seconds(n) == Mul64(I64(n), Second)

\* 2^34, a count of seconds whose product with time.Second does not fit int64
HugeSec == [i \in 1..Limbs |-> IF i = 5 THEN 4 ELSE 0]

\* ------------------------------------------------------------ configuration
Hosts == { <<>>, <<"m">>, <<"m", " ", "x">>, <<":", ":", "1">>, <<"a", "]">> }
Ports == { 0, 587, 65536 }
Froms == { <<>>, <<"c">> }
Names == { <<>>, <<"u">> }
RetryCounts == (-1)..MaxRetry
Delays == { I64(-1), Zero64, I64(2), HugeSec }
Timeouts == { I64(-1), Zero64, I64(30), I64(61), HugeSec }

\* types.EmailConfig, the fields the service reads
ConfigDomain ==
    [Host : Hosts, Port : Ports, From : Froms, Username : Names, Password : Names,
     Enabled : BOOLEAN, SmtpRetryCount : RetryCounts, SmtpRetryDelaySec : Delays,
     SmtpDialTimeoutSec : Timeouts, To : {<<>>}, Subject : {<<>>}, Body : {<<>>}]

\* validateConfig with the from address checked before the port
validateConfigFromFirst(cfg) ==
    LET host == TrimSpace(cfg.Host)
        from == TrimSpace(cfg.From)
        username == TrimSpace(cfg.Username)
        password == TrimSpace(cfg.Password)
    IN  IF host = <<>> THEN "email host cannot be empty"
        ELSE IF Contains(host, " ") THEN "email host cannot contain spaces"
        ELSE IF from = <<>> THEN "email from address cannot be empty"
        ELSE IF cfg.Port <= 0 \/ cfg.Port > 65535 THEN "email port must be between 1 and 65535"
        ELSE IF ~SplitHostPort(JoinHostPort(host, Itoa(cfg.Port))).ok
             THEN "invalid host or port for email config"
        ELSE IF username = <<>> /\ password # <<>>
             THEN "email username must be set when password is provided"
        ELSE IF password = <<>> /\ username # <<>>
             THEN "email password must be set when username is provided"
        ELSE "nil"

\* validateConfig: "nil", or the first violated rule
validateConfig(cfg) ==
    LET host == TrimSpace(cfg.Host)
        from == TrimSpace(cfg.From)
        username == TrimSpace(cfg.Username)
        password == TrimSpace(cfg.Password)
    IN  IF host = <<>> THEN "email host cannot be empty"
        ELSE IF Contains(host, " ") THEN "email host cannot contain spaces"
        ELSE IF cfg.Port <= 0 \/ cfg.Port > 65535 THEN "email port must be between 1 and 65535"
        ELSE IF ~SplitHostPort(JoinHostPort(host, Itoa(cfg.Port))).ok
             THEN "invalid host or port for email config"
        ELSE IF from = <<>> THEN "email from address cannot be empty"
        ELSE IF username = <<>> /\ password # <<>>
             THEN "email username must be set when password is provided"
        ELSE IF password = <<>> /\ username # <<>>
             THEN "email password must be set when username is provided"
        ELSE "nil"

\* the zero value of types.EmailConfig
ZeroConfig ==
    [Host |-> <<>>, Port |-> 0, From |-> <<>>, Username |-> <<>>, Password |-> <<>>,
     Enabled |-> FALSE, SmtpRetryCount |-> 0, SmtpRetryDelaySec |-> Zero64,
     SmtpDialTimeoutSec |-> Zero64, To |-> <<>>, Subject |-> <<>>, Body |-> <<>>]

\* The records the config provider may hold in Spec. A record that fails
\* validation never reaches Send, so its retry, delay and timeout fields are left
\* at zero; a valid record asks for no retry, and for the default dial timeout or
\* one above the maximum.
ProviderConfigs ==
    { c \in ConfigDomain :
        /\ c.SmtpRetryDelaySec = Zero64
        /\ c.SmtpRetryCount = 0
        /\ c.SmtpDialTimeoutSec \in {Zero64, I64(61)}
        /\ validateConfig(c) # "nil" => c.SmtpDialTimeoutSec = Zero64 }

\* The valid records a ready service may hold in SpecSend: every retry count and
\* delay, the default dial timeout.
ReadyConfigs ==
    { c \in ConfigDomain : validateConfig(c) = "nil" /\ c.SmtpDialTimeoutSec = Zero64 }

\* ConfigService: nil, or a provider whose EmailConfig() fails or returns cfg
NilProvider == [present |-> FALSE, fails |-> FALSE, cfg |-> ZeroConfig]
FailingProvider == [present |-> TRUE, fails |-> TRUE, cfg |-> ZeroConfig]
Providers ==
    {NilProvider, FailingProvider}
        \cup { [present |-> TRUE, fails |-> FALSE, cfg |-> c] : c \in ProviderConfigs }

\* ---------------------------------------------------------------- timeouts
\* dial timeouts, in seconds
DefaultDialTimeout == 10
MinDialTimeout == 1
MaxDialTimeout == 60

\* the timeout Initialize derives from cfg.SmtpDialTimeoutSec
DeriveDialTimeout(sec) ==
    IF Lt64(Zero64, sec)
    THEN LET d == Mul64(sec, Second)
             d1 == IF Lt64(d, Seconds(MinDialTimeout)) THEN Seconds(MinDialTimeout) ELSE d
         IN  IF Lt64(Seconds(MaxDialTimeout), d1) THEN Seconds(MaxDialTimeout) ELSE d1
    ELSE Seconds(DefaultDialTimeout)

\* ------------------------------------------------------------------- state
VARIABLES
    LoggerService,   \* TRUE iff the injected logger is non-nil
    ConfigService,   \* the injected config provider (see Providers)
    Config,          \* s.Config: [set, val]; set = FALSE is the nil pointer
    isInitialized,   \* s.isInitialized (atomic.Bool)
    initOnce,        \* s.initOnce: "fresh", "running" (a caller is inside Do) or "done"
    smtpDialTimeout, \* the package-level dial timeout (a time.Duration)
    ipc,             \* per caller: position inside Initialize
    initErr,         \* per caller: the local variable initErr of its current call
    iret,            \* per caller: what its latest Initialize call returned
    setupRuns,       \* history: how many times the body given to initOnce.Do has started
    setupErr,        \* history: initErr of the caller that ran the body, once Do returned
    stores,          \* history: number of isInitialized.Store calls
    spc,             \* position of the goroutine that calls Send
    email,           \* the MsgDef given to the Send call in progress
    from,            \* Send's resolved envelope sender
    addr,            \* Send's target address
    auth,            \* TRUE iff Send built PLAIN credentials (auth # nil)
    retries,         \* Send's local retries
    delay,           \* Send's local delay (a time.Duration)
    attempt,         \* Send's loop variable
    lastErr,         \* Send's local lastErr
    sres,            \* what the latest Send call returned
    atCall,          \* history: what held when the latest Send call was made
    calls,           \* history: sendMailFn invocations of the current Send call
    outcomes,        \* history: per finished invocation of the current Send call, TRUE iff it returned nil
    sleeps,          \* history: the time slept before each invocation of the current Send call
    branch,          \* deliver: "none", "implicit" (tryImplicitTLS) or "starttls" (tryStartTLS)
    conns,           \* history: connections opened by the current sendMailFn invocation
    connOpen,        \* TRUE iff the connection of the current branch is open
    alreadyTLS,      \* sendWithClient's parameter
    tls,             \* TRUE iff the current connection is TLS-secured
    didHello,        \* smtp.Client: the client has introduced itself
    startTLSExt,     \* smtp.Client: the server's EHLO reply advertised STARTTLS
    rcptIdx,         \* number of recipients declared so far
    wire,            \* history: the steps taken on the current connection, with the relay's replies
    serr,            \* the error the current branch returned
    derr,            \* the error sendMailFn returned
    vret,            \* what the latest direct validateConfig call returned
    bargs,           \* history: the arguments of the latest BuildEmailWithADIFAttachment call
    built,           \* what the latest BuildEmailWithADIFAttachment call returned: [doc, err]
    lines,           \* history: the header names in the order the latest build call wrote them, <<>> when it returned no document
    prevLines,       \* history: lines as it was before the latest build call, <<>> when that returned no document
    peer             \* a second Service instance of the process: [Config, isInitialized, initOnce]

lifecycleVars ==
    <<LoggerService, ConfigService, Config, isInitialized, initOnce, smtpDialTimeout,
      ipc, initErr, iret, setupRuns, setupErr, stores>>

\* the variables of a Send call other than its position
sendLocals ==
    <<email, from, addr, auth, retries, delay, attempt, lastErr, sres, atCall, calls,
      outcomes, sleeps>>

sendVars == <<spc, sendLocals>>

sessionVars ==
    <<branch, conns, connOpen, alreadyTLS, tls, didHello, startTLSExt, rcptIdx, wire,
      serr, derr>>

\* the results of the calls made on the Service besides Initialize and Send
directVars == <<vret, bargs, built, lines, prevLines>>

vars == <<lifecycleVars, sendVars, sessionVars, directVars, peer>>

\* ------------------------------------------------------------------ errors
\* a transport error: what failed, and in which sendMailFn invocation of the Send call
NoErr == [kind |-> "nil", attempt |-> 0]
TransportErr(kind) == [kind |-> kind, attempt |-> calls]

\* what Send returns: Ok, or an error with its message and the error it wraps
Ok == [msg |-> "nil", cause |-> NoErr]
SendErr(msg, cause) == [msg |-> msg, cause |-> cause]
NoResult == [msg |-> "none", cause |-> NoErr]

errMsgNotInitialized == "email service is not initialized"

\* -------------------------------------------------------------- Initialize
\* Initialize up to initOnce.Do: the fast path returns nil when the flag is set
InitializeCall(c) ==
    /\ ipc[c] = "idle"
    /\ initErr' = [initErr EXCEPT ![c] = "nil"]
    /\ IF isInitialized
       THEN /\ iret' = [iret EXCEPT ![c] = "nil"]
            /\ ipc' = ipc
       ELSE /\ iret' = [iret EXCEPT ![c] = "pending"]
            /\ ipc' = [ipc EXCEPT ![c] = "once"]
    /\ UNCHANGED <<LoggerService, ConfigService, Config, isInitialized, initOnce,
                   smtpDialTimeout, setupRuns, setupErr, stores>>
    /\ UNCHANGED <<sendVars, sessionVars, directVars, peer>>

\* DoRuns as an unguarded check of the done flag: a caller arriving while the body
\* runs runs it too
DoRunsUnlocked(once) == once # "done"

\* sync.Once: Do runs the function it is given only if no call of Do has begun
DoRuns(once) == once = "fresh"

\* initOnce.Do: the first caller runs the body; a caller arriving while the body
\* runs waits; a caller arriving after it skips the body and returns its own initErr
OnceDo(c) ==
    /\ ipc[c] = "once"
    /\ DoRuns(initOnce) \/ initOnce = "done"
    /\ IF DoRuns(initOnce)
       THEN /\ initOnce' = "running"
            /\ setupRuns' = setupRuns + 1
            /\ ipc' = [ipc EXCEPT ![c] = "deps"]
            /\ iret' = iret
       ELSE /\ iret' = [iret EXCEPT ![c] = initErr[c]]
            /\ ipc' = [ipc EXCEPT ![c] = "idle"]
            /\ UNCHANGED <<initOnce, setupRuns>>
    /\ UNCHANGED <<LoggerService, ConfigService, Config, isInitialized,
                   smtpDialTimeout, initErr, setupErr, stores>>
    /\ UNCHANGED <<sendVars, sessionVars, directVars, peer>>

\* the body: the collaborators must be present, and the config is fetched
SetupDeps(c) ==
    /\ ipc[c] = "deps"
    /\ IF ~LoggerService
       THEN /\ initErr' = [initErr EXCEPT ![c] = "logger service has not been set/injected"]
            /\ ipc' = [ipc EXCEPT ![c] = "exit"]
            /\ Config' = Config
       ELSE IF ~ConfigService.present
       THEN /\ initErr' = [initErr EXCEPT ![c] = "application config has not been set/injected"]
            /\ ipc' = [ipc EXCEPT ![c] = "exit"]
            /\ Config' = Config
       ELSE IF ConfigService.fails
       THEN /\ initErr' = [initErr EXCEPT ![c] = "getting email config"]
            /\ ipc' = [ipc EXCEPT ![c] = "exit"]
            /\ Config' = Config
       ELSE /\ Config' = [set |-> TRUE, val |-> ConfigService.cfg]
            /\ ipc' = [ipc EXCEPT ![c] = "validate"]
            /\ initErr' = initErr
    /\ UNCHANGED <<LoggerService, ConfigService, isInitialized, initOnce,
                   smtpDialTimeout, iret, setupRuns, setupErr, stores>>
    /\ UNCHANGED <<sendVars, sessionVars, directVars, peer>>

\* MarkDisabled left out: the rejected config keeps its flag
MarkDisabledSkipped(cfg) == cfg

\* s.Config.Enabled = false
MarkDisabled(cfg) == [cfg EXCEPT !.Enabled = FALSE]

\* the body: validation; a rejected config is marked disabled
SetupValidate(c) ==
    /\ ipc[c] = "validate"
    /\ LET err == validateConfig(Config.val)
       IN  IF err # "nil"
           THEN /\ initErr' = [initErr EXCEPT ![c] = err]
                /\ Config' = [Config EXCEPT !.val = MarkDisabled(Config.val)]
                /\ ipc' = [ipc EXCEPT ![c] = "exit"]
           ELSE /\ ipc' = [ipc EXCEPT ![c] = "timeout"]
                /\ UNCHANGED <<initErr, Config>>
    /\ UNCHANGED <<LoggerService, ConfigService, isInitialized, initOnce,
                   smtpDialTimeout, iret, setupRuns, setupErr, stores>>
    /\ UNCHANGED <<sendVars, sessionVars, directVars, peer>>

\* the body: the package-level dial timeout is derived from the config
SetupTimeout(c) ==
    /\ ipc[c] = "timeout"
    /\ smtpDialTimeout' = DeriveDialTimeout(Config.val.SmtpDialTimeoutSec)
    /\ ipc' = [ipc EXCEPT ![c] = "store"]
    /\ UNCHANGED <<LoggerService, ConfigService, Config, isInitialized, initOnce,
                   initErr, iret, setupRuns, setupErr, stores>>
    /\ UNCHANGED <<sendVars, sessionVars, directVars, peer>>

\* the body: s.isInitialized.Store(true)
SetupStore(c) ==
    /\ ipc[c] = "store"
    /\ isInitialized' = TRUE
    /\ stores' = stores + 1
    /\ ipc' = [ipc EXCEPT ![c] = "exit"]
    /\ UNCHANGED <<LoggerService, ConfigService, Config, initOnce, smtpDialTimeout,
                   initErr, iret, setupRuns, setupErr>>
    /\ UNCHANGED <<sendVars, sessionVars, directVars, peer>>

\* the body returns: Do marks the Once done and Initialize returns initErr
OnceExit(c) ==
    /\ ipc[c] = "exit"
    /\ initOnce' = "done"
    /\ setupErr' = initErr[c]
    /\ iret' = [iret EXCEPT ![c] = initErr[c]]
    /\ ipc' = [ipc EXCEPT ![c] = "idle"]
    /\ UNCHANGED <<LoggerService, ConfigService, Config, isInitialized,
                   smtpDialTimeout, initErr, setupRuns, stores>>
    /\ UNCHANGED <<sendVars, sessionVars, directVars, peer>>

\* the setup has failed: the caller running the body has set its initErr, or has
\* returned it
SetupFailed ==
    \/ setupErr \notin {"none", "nil"}
    \/ \E c \in Callers : initErr[c] # "nil"

\* -------------------------------------------------------------------- Send
AddrPool == <<"b", "a", "d", "c">>
RcptLists == { SubSeq(AddrPool, 1, n) : n \in 0..MaxRcpt }
MsgFroms == { <<>>, <<" ">>, <<"f">> }
Payload == <<"h", "i">>

\* MsgDef
Messages == [From : MsgFroms, To : RcptLists, Msg : {Payload}]
ZeroMsg == [From |-> <<>>, To |-> <<>>, Msg |-> <<>>]

\* the session state of a sendMailFn invocation that has not dialled yet
SessionReset ==
    /\ branch' = "none"
    /\ conns' = 0
    /\ connOpen' = FALSE
    /\ alreadyTLS' = FALSE
    /\ tls' = FALSE
    /\ didHello' = FALSE
    /\ startTLSExt' = FALSE
    /\ rcptIdx' = 0
    /\ wire' = <<>>
    /\ serr' = NoErr
    /\ derr' = NoErr

\* Send's locals once the call has returned
LocalsGone ==
    /\ email' = ZeroMsg
    /\ from' = <<>>
    /\ addr' = <<>>
    /\ auth' = FALSE
    /\ retries' = 0
    /\ delay' = Zero64
    /\ attempt' = 0
    /\ lastErr' = NoErr

\* Send's delay: the configured seconds as a Duration, 0 when that is not positive
RetryDelay(sec) ==
    LET d == Mul64(sec, Second)
    IN  IF Lt64(Zero64, d) THEN d ELSE Zero64

Max0(n) == IF n < 0 THEN 0 ELSE n

\* NotReady with the check left out
NotReadyUnchecked == FALSE

\* Send's first check: !s.isInitialized.Load()
NotReady == ~isInitialized

\* Disabled with the flag read the wrong way round
DisabledInverted(cfg) == cfg.Enabled

\* Send's second check: !s.Config.Enabled
Disabled(cfg) == ~cfg.Enabled

\* ResolveFrom without the configuration default
ResolveFromNoDefault(msgFrom, cfgFrom) == TrimSpace(msgFrom)

\* Send's envelope sender: the message's, trimmed, else the configuration's, trimmed
ResolveFrom(msgFrom, cfgFrom) ==
    IF TrimSpace(msgFrom) = <<>> THEN TrimSpace(cfgFrom) ELSE TrimSpace(msgFrom)

\* Send up to the retry loop: the preconditions, the envelope sender, the address,
\* the credentials and the retry policy
SendCall(m) ==
    /\ spc = "idle"
    /\ atCall' = [called |-> TRUE, ready |-> isInitialized, enabled |-> Config.val.Enabled,
                  failed |-> SetupFailed]
    /\ calls' = 0
    /\ outcomes' = <<>>
    /\ sleeps' = <<>>
    /\ SessionReset
    /\ IF NotReady
       THEN /\ sres' = SendErr(errMsgNotInitialized, NoErr)
            /\ spc' = "idle"
            /\ LocalsGone
       ELSE IF Disabled(Config.val)
       THEN /\ sres' = Ok
            /\ spc' = "idle"
            /\ LocalsGone
       ELSE LET host == TrimSpace(Config.val.Host)
                username == TrimSpace(Config.val.Username)
                f == ResolveFrom(m.From, Config.val.From)
            IN  IF f = <<>>
                THEN /\ sres' = SendErr("email from address cannot be empty", NoErr)
                     /\ spc' = "idle"
                     /\ LocalsGone
                ELSE /\ sres' = NoResult
                     /\ spc' = "loop"
                     /\ email' = m
                     /\ from' = f
                     /\ addr' = JoinHostPort(host, Itoa(Config.val.Port))
                     /\ auth' = (username # <<>>)
                     /\ retries' = Max0(Config.val.SmtpRetryCount)
                     /\ delay' = RetryDelay(Config.val.SmtpRetryDelaySec)
                     /\ attempt' = 0
                     /\ lastErr' = NoErr
    /\ UNCHANGED <<lifecycleVars, directVars, peer>>

\* LoopContinues with the bound off by one: attempt < retries
LoopContinuesShort(a, r) == a < r

\* the loop condition: attempt <= retries
LoopContinues(a, r) == a <= r

\* SleepTime with the test of attempt left out: a delay before the first attempt too
SleepTimeEvery(a, d) == IF Lt64(Zero64, d) THEN d ELSE Zero64

\* the time slept at the top of iteration a of the loop: time.Sleep(delay) when
\* attempt > 0 && delay > 0
SleepTime(a, d) == IF a > 0 /\ Lt64(Zero64, d) THEN d ELSE Zero64

\* the loop head: either the loop ends, or (after the delay) sendMailFn is called
SendLoop ==
    /\ spc = "loop"
    /\ IF LoopContinues(attempt, retries)
       THEN /\ sleeps' = Append(sleeps, SleepTime(attempt, delay))
            /\ calls' = calls + 1
            /\ spc' = "split"
            /\ SessionReset
       ELSE /\ spc' = "after"
            /\ UNCHANGED <<sleeps, calls, sessionVars>>
    /\ UNCHANGED <<email, from, addr, auth, retries, delay, attempt, lastErr, sres, atCall,
                   outcomes>>
    /\ UNCHANGED <<lifecycleVars, directVars, peer>>

\* AfterAttempt without the break: the loop goes on after a success
AfterAttemptNoBreak(err) == "loop"

\* the loop body's exits: continue after an error, break after a success
AfterAttempt(err) == IF err # NoErr THEN "loop" ELSE "after"

\* the loop body after sendMailFn returned derr
TransportReturn ==
    /\ spc = "delivRet"
    /\ outcomes' = Append(outcomes, derr = NoErr)
    /\ lastErr' = derr
    /\ spc' = AfterAttempt(derr)
    /\ attempt' = IF AfterAttempt(derr) = "loop" THEN attempt + 1 ELSE attempt
    /\ UNCHANGED <<email, from, addr, auth, retries, delay, sres, atCall, calls, sleeps>>
    /\ UNCHANGED sessionVars
    /\ UNCHANGED <<lifecycleVars, directVars, peer>>

\* after the loop
SendReturn ==
    /\ spc = "after"
    /\ sres' = IF lastErr # NoErr THEN SendErr("failed to send email", lastErr) ELSE Ok
    /\ spc' = "idle"
    /\ LocalsGone
    /\ UNCHANGED <<atCall, calls, outcomes, sleeps>>
    /\ UNCHANGED sessionVars
    /\ UNCHANGED <<lifecycleVars, directVars, peer>>

\* --------------------------------------------------------- sendMailWithTLS
\* one line of the transcript: the step, its argument, whether the connection was
\* TLS-secured when it was taken, and whether the relay (or the network) let it pass
Step(cmd, arg, secured, ok) == [cmd |-> cmd, arg |-> arg, tls |-> secured, ok |-> ok]

\* SessionEnds without the close: the connection outlives the return
SessionEndsLeaking(err) ==
    /\ serr' = err
    /\ connOpen' = connOpen
    /\ spc' = "sessRet"

\* sendWithClient returns err; the deferred client.Close() closes the connection
SessionEnds(err) ==
    /\ serr' = err
    /\ connOpen' = FALSE
    /\ spc' = "sessRet"

\* sendMailWithTLS: the address is split, then tryImplicitTLS is called
sendMailWithTLS ==
    /\ spc = "split"
    /\ IF ~SplitHostPort(addr).ok
       THEN /\ derr' = TransportErr("invalid smtp address")
            /\ spc' = "delivRet"
            /\ branch' = branch
       ELSE /\ branch' = "implicit"
            /\ spc' = "dialTLS"
            /\ derr' = derr
    /\ UNCHANGED <<conns, connOpen, alreadyTLS, tls, didHello, startTLSExt, rcptIdx, wire, serr>>
    /\ UNCHANGED sendLocals
    /\ UNCHANGED <<lifecycleVars, directVars, peer>>

\* tryImplicitTLS: tls.DialWithDialer, then sendWithClient(..., true)
tryImplicitTLS ==
    /\ spc = "dialTLS"
    /\ \E ok \in BOOLEAN :
         IF ok
         THEN /\ conns' = conns + 1
              /\ connOpen' = TRUE
              /\ alreadyTLS' = TRUE
              /\ tls' = TRUE
              /\ spc' = "newClient"
              /\ serr' = serr
         ELSE /\ serr' = TransportErr("tls dial")
              /\ spc' = "sessRet"
              /\ UNCHANGED <<conns, connOpen, alreadyTLS, tls>>
    /\ UNCHANGED <<branch, didHello, startTLSExt, rcptIdx, wire, derr>>
    /\ UNCHANGED sendLocals
    /\ UNCHANGED <<lifecycleVars, directVars, peer>>

\* tryStartTLS: a plain TCP dial, then sendWithClient(..., false)
tryStartTLS ==
    /\ spc = "dialPlain"
    /\ \E ok \in BOOLEAN :
         IF ok
         THEN /\ conns' = conns + 1
              /\ connOpen' = TRUE
              /\ alreadyTLS' = FALSE
              /\ tls' = FALSE
              /\ spc' = "newClient"
              /\ serr' = serr
         ELSE /\ serr' = TransportErr("tcp dial")
              /\ spc' = "sessRet"
              /\ UNCHANGED <<conns, connOpen, alreadyTLS, tls>>
    /\ UNCHANGED <<branch, didHello, startTLSExt, rcptIdx, wire, derr>>
    /\ UNCHANGED sendLocals
    /\ UNCHANGED <<lifecycleVars, directVars, peer>>

\* FallsBack without regard to the branch that failed
FallsBackAlways == serr # NoErr

\* sendMailWithTLS calls tryStartTLS when tryImplicitTLS returned an error
FallsBack == branch = "implicit" /\ serr # NoErr

\* sendMailWithTLS after a branch returned serr: the fallback, or the return
BranchReturn ==
    /\ spc = "sessRet"
    /\ IF FallsBack
       THEN /\ branch' = "starttls"
            /\ spc' = "dialPlain"
            /\ serr' = NoErr
            /\ didHello' = FALSE
            /\ startTLSExt' = FALSE
            /\ rcptIdx' = 0
            /\ wire' = <<>>
            /\ alreadyTLS' = FALSE
            /\ tls' = FALSE
            /\ derr' = derr
       ELSE /\ derr' = serr
            /\ spc' = "delivRet"
            /\ UNCHANGED <<branch, serr, didHello, startTLSExt, rcptIdx, wire, alreadyTLS, tls>>
    /\ UNCHANGED <<conns, connOpen>>
    /\ UNCHANGED sendLocals
    /\ UNCHANGED <<lifecycleVars, directVars, peer>>

\* ---------------------------------------------------------- sendWithClient
\* smtp.NewClient reads the greeting; when it fails the connection is closed, and
\* the error of conn.Close(), if any, is returned in place of the greeting's
NewClient ==
    /\ spc = "newClient"
    /\ \E ok \in BOOLEAN, closeOk \in BOOLEAN :
         /\ ok => closeOk
         /\ wire' = Append(wire, Step("GREETING", "", tls, ok))
         /\ IF ok
            THEN /\ spc' = "hello"
                 /\ didHello' = FALSE
                 /\ UNCHANGED <<serr, connOpen>>
            ELSE /\ SessionEnds(TransportErr(IF closeOk THEN "greeting" ELSE "conn close"))
                 /\ didHello' = didHello
    /\ UNCHANGED <<branch, conns, alreadyTLS, tls, startTLSExt, rcptIdx, derr>>
    /\ UNCHANGED sendLocals
    /\ UNCHANGED <<lifecycleVars, directVars, peer>>

\* where the session goes once the connection is secured and the client said hello
AfterHello == IF auth THEN "auth" ELSE "mail"

\* AfterFirstHello without the !alreadyTLS block: the session goes on in plaintext
AfterFirstHelloPlain == AfterHello

\* where the session goes after its first Hello: into the !alreadyTLS block, or past it
AfterFirstHello == IF ~alreadyTLS THEN "starttls" ELSE AfterHello

\* client.Hello at either call site. smtp.Client.Hello refuses to run once the
\* client has introduced itself ("smtp: Hello called after other methods");
\* otherwise it sends EHLO, and the reply tells whether STARTTLS is advertised.
Hello ==
    /\ spc \in {"hello", "hello2"}
    /\ IF didHello
       THEN /\ SessionEnds(TransportErr("smtp: Hello called after other methods"))
            /\ UNCHANGED <<didHello, startTLSExt, wire>>
       ELSE /\ didHello' = TRUE
            /\ \E reply \in {"250 STARTTLS", "250", "reject"} :
                 /\ wire' = Append(wire, Step("EHLO", "", tls, reply # "reject"))
                 /\ startTLSExt' = (reply = "250 STARTTLS")
                 /\ IF reply = "reject"
                    THEN SessionEnds(TransportErr("hello"))
                    ELSE /\ spc' = IF spc = "hello" THEN AfterFirstHello ELSE AfterHello
                         /\ UNCHANGED <<serr, connOpen>>
    /\ UNCHANGED <<branch, conns, alreadyTLS, tls, rcptIdx, derr>>
    /\ UNCHANGED sendLocals
    /\ UNCHANGED <<lifecycleVars, directVars, peer>>

\* the !alreadyTLS block: STARTTLS must be advertised; client.StartTLS sends
\* STARTTLS, upgrades the connection and sends EHLO again over TLS
StartTLS ==
    /\ spc = "starttls"
    /\ IF ~startTLSExt
       THEN /\ SessionEnds(TransportErr("smtp server does not support STARTTLS; TLS required"))
            /\ UNCHANGED <<tls, startTLSExt, wire>>
       ELSE \E reply \in {"ok", "reject", "ehlo reject"} :
              CASE reply = "reject" ->
                     /\ wire' = Append(wire, Step("STARTTLS", "", tls, FALSE))
                     /\ SessionEnds(TransportErr("starttls"))
                     /\ UNCHANGED <<tls, startTLSExt>>
                [] reply = "ehlo reject" ->
                     /\ wire' = wire \o <<Step("STARTTLS", "", tls, TRUE),
                                          Step("EHLO", "", TRUE, FALSE)>>
                     /\ tls' = TRUE
                     /\ SessionEnds(TransportErr("starttls"))
                     /\ startTLSExt' = startTLSExt
                [] OTHER ->
                     /\ wire' = wire \o <<Step("STARTTLS", "", tls, TRUE),
                                          Step("EHLO", "", TRUE, TRUE)>>
                     /\ tls' = TRUE
                     /\ startTLSExt' = FALSE
                     /\ spc' = "hello2"
                     /\ UNCHANGED <<serr, connOpen>>
    /\ UNCHANGED <<branch, conns, alreadyTLS, didHello, rcptIdx, derr>>
    /\ UNCHANGED sendLocals
    /\ UNCHANGED <<lifecycleVars, directVars, peer>>

\* client.Auth(auth), called when credentials were built
Auth ==
    /\ spc = "auth"
    /\ \E ok \in BOOLEAN :
         /\ wire' = Append(wire, Step("AUTH", "", tls, ok))
         /\ IF ok
            THEN /\ spc' = "mail"
                 /\ UNCHANGED <<serr, connOpen>>
            ELSE SessionEnds(TransportErr("auth"))
    /\ UNCHANGED <<branch, conns, alreadyTLS, tls, didHello, startTLSExt, rcptIdx, derr>>
    /\ UNCHANGED sendLocals
    /\ UNCHANGED <<lifecycleVars, directVars, peer>>

\* AfterRcpt with the loop over to left after its first iteration
AfterRcptFirstOnly(n) == IF n = 0 /\ Len(email.To) > 0 THEN "rcpt" ELSE "data"

\* where the session goes when n recipients have been declared
AfterRcpt(n) == IF n < Len(email.To) THEN "rcpt" ELSE "data"

\* client.Mail(from)
Mail ==
    /\ spc = "mail"
    /\ \E ok \in BOOLEAN :
         /\ wire' = Append(wire, Step("MAIL", from, tls, ok))
         /\ IF ok
            THEN /\ spc' = AfterRcpt(0)
                 /\ UNCHANGED <<serr, connOpen>>
            ELSE SessionEnds(TransportErr("mail"))
    /\ UNCHANGED <<branch, conns, alreadyTLS, tls, didHello, startTLSExt, rcptIdx, derr>>
    /\ UNCHANGED sendLocals
    /\ UNCHANGED <<lifecycleVars, directVars, peer>>

\* one iteration of the loop over to: client.Rcpt(addr)
Rcpt ==
    /\ spc = "rcpt"
    /\ \E ok \in BOOLEAN :
         /\ wire' = Append(wire, Step("RCPT", email.To[rcptIdx + 1], tls, ok))
         /\ IF ok
            THEN /\ rcptIdx' = rcptIdx + 1
                 /\ spc' = AfterRcpt(rcptIdx + 1)
                 /\ UNCHANGED <<serr, connOpen>>
            ELSE /\ SessionEnds(TransportErr("rcpt"))
                 /\ rcptIdx' = rcptIdx
    /\ UNCHANGED <<branch, conns, alreadyTLS, tls, didHello, startTLSExt, derr>>
    /\ UNCHANGED sendLocals
    /\ UNCHANGED <<lifecycleVars, directVars, peer>>

\* client.Data()
Data ==
    /\ spc = "data"
    /\ \E ok \in BOOLEAN :
         /\ wire' = Append(wire, Step("DATA", "", tls, ok))
         /\ IF ok
            THEN /\ spc' = "write"
                 /\ UNCHANGED <<serr, connOpen>>
            ELSE SessionEnds(TransportErr("data"))
    /\ UNCHANGED <<branch, conns, alreadyTLS, tls, didHello, startTLSExt, rcptIdx, derr>>
    /\ UNCHANGED sendLocals
    /\ UNCHANGED <<lifecycleVars, directVars, peer>>

\* wc.Write(msg); when it fails the data section is closed, and the error of
\* wc.Close(), if any, is returned in place of the write's
Write ==
    /\ spc = "write"
    /\ \E ok \in BOOLEAN, closeOk \in BOOLEAN :
         /\ ok => closeOk
         /\ wire' = Append(wire, Step("PAYLOAD", email.Msg, tls, ok))
         /\ IF ok
            THEN /\ spc' = "closeData"
                 /\ UNCHANGED <<serr, connOpen>>
            ELSE SessionEnds(TransportErr(IF closeOk THEN "write" ELSE "data close"))
    /\ UNCHANGED <<branch, conns, alreadyTLS, tls, didHello, startTLSExt, rcptIdx, derr>>
    /\ UNCHANGED sendLocals
    /\ UNCHANGED <<lifecycleVars, directVars, peer>>

\* wc.Close(): the end of the data section; the relay's reply accepts the message
CloseData ==
    /\ spc = "closeData"
    /\ \E ok \in BOOLEAN :
         /\ wire' = Append(wire, Step(".", "", tls, ok))
         /\ IF ok
            THEN /\ spc' = "quit"
                 /\ UNCHANGED <<serr, connOpen>>
            ELSE SessionEnds(TransportErr("data close"))
    /\ UNCHANGED <<branch, conns, alreadyTLS, tls, didHello, startTLSExt, rcptIdx, derr>>
    /\ UNCHANGED sendLocals
    /\ UNCHANGED <<lifecycleVars, directVars, peer>>

\* QuitResult with the error of client.Quit() returned
QuitResultStrict(ok) == IF ok THEN NoErr ELSE TransportErr("quit")

\* what sendWithClient returns after client.Quit(): nil, whether or not Quit failed
QuitResult(ok) == NoErr

\* client.Quit(): its error is dropped, sendWithClient returns nil either way
Quit ==
    /\ spc = "quit"
    /\ \E ok \in BOOLEAN :
         /\ wire' = Append(wire, Step("QUIT", "", tls, ok))
         /\ SessionEnds(QuitResult(ok))
    /\ UNCHANGED <<branch, conns, alreadyTLS, tls, didHello, startTLSExt, rcptIdx, derr>>
    /\ UNCHANGED sendLocals
    /\ UNCHANGED <<lifecycleVars, directVars, peer>>

\* ------------------------------------------- BuildEmailWithADIFAttachment
\* the characters the default recipient string is split on
Separators == { ",", ";", " " }

\* the fields of s from position i on, cur being the field read so far
RECURSIVE FieldsFrom(_, _, _)
FieldsFrom(s, i, cur) ==
    IF i > Len(s) THEN (IF cur = <<>> THEN <<>> ELSE <<cur>>)
    ELSE IF s[i] \in Separators
    THEN (IF cur = <<>> THEN <<>> ELSE <<cur>>) \o FieldsFrom(s, i + 1, <<>>)
    ELSE FieldsFrom(s, i + 1, Append(cur, s[i]))

\* splitAndTrim: the string split on comma, semicolon and whitespace, the fields
\* trimmed and the empty ones discarded
splitAndTrim(s) == FieldsFrom(s, 1, <<>>)

\* the header names in the order hdr.Set first stored them; textproto puts each
\* name in its canonical form
HeaderKeys ==
    <<"From", "To", "Subject", "Date", "Message-Id", "Mime-Version", "Content-Type">>

\* s from its element k + 1 on, then its first k elements
Rotate(s, k) == SubSeq(s, k + 1, Len(s)) \o SubSeq(s, 1, k)

\* The orders in which range may yield the names of hdr. hdr is a map, and Go
\* leaves the iteration order of a map unspecified; the runtime starts a map of
\* this size at a random slot, which yields the rotations of the stored order.
RangeOrders == { Rotate(HeaderKeys, k) : k \in 0..(Len(HeaderKeys) - 1) }

\* the steps after the headers that return an error, and "nil" when none does
WriteOutcomes ==
    { "nil", "create body part", "write body", "close qp", "create attachment part",
      "write attachment part", "write attachment newline", "finalize multipart" }

\* the arguments of a build call
BuildFroms == { <<>>, <<" ">>, <<"f">> }
BuildTos == { <<>>, << <<"d">> >> }

\* NoRecords with the check left out
NoRecordsUnchecked(n) == FALSE

\* len(slice) == 0
NoRecords(n) == n = 0

\* return MsgDef{}, err
Failed(err) == [doc |-> ZeroMsg, err |-> err]

\* the message the build writes: the header lines in the order given, a blank
\* line, the text part and the attachment part
Document(hdr, order, msg, records) ==
    [i \in 1..Len(order) |-> <<order[i], hdr[order[i]]>>]
        \o << <<>>, <<"text/plain", msg>>, <<"application/octet-stream", records>> >>

\* BuildEmailWithADIFAttachment(from, subject, msg, to, slice): composed tells
\* whether adif.ComposeToAdifString succeeds, written which write step fails, and
\* order is the order in which range yields the header names
BuildEmailWithADIFAttachment(fromArg, subjectArg, msgArg, to, records, composed, written, order) ==
    /\ Config.set
    /\ bargs' = [called |-> TRUE, from |-> fromArg, to |-> to, records |-> records,
                 composed |-> composed]
    /\ LET from0 == IF TrimSpace(fromArg) = <<>> THEN Config.val.From ELSE TrimSpace(fromArg)
           tos == IF Len(to) = 0 THEN splitAndTrim(Config.val.To) ELSE to
           subject == IF TrimSpace(subjectArg) = <<>> THEN Config.val.Subject
                      ELSE TrimSpace(subjectArg)
           msg == IF TrimSpace(msgArg) = <<>> THEN Config.val.Body ELSE TrimSpace(msgArg)
           hdr == [k \in {HeaderKeys[i] : i \in 1..Len(HeaderKeys)} |->
                     CASE k = "From" -> from0
                       [] k = "To" -> tos
                       [] k = "Subject" -> subject
                       [] k = "Date" -> <<"now">>
                       [] k = "Message-Id" -> <<"mid">>
                       [] k = "Mime-Version" -> <<"1.0">>
                       [] OTHER -> <<"multipart/mixed", "boundary">>]
       IN  IF Len(tos) = 0
           THEN /\ built' = Failed("email TO address cannot be empty")
                /\ lines' = <<>>
                /\ prevLines' = <<>>
           ELSE IF NoRecords(records)
           THEN /\ built' = Failed("QSO slice cannot be empty")
                /\ lines' = <<>>
                /\ prevLines' = <<>>
           ELSE IF ~composed
           THEN /\ built' = Failed("failed to compose ADIF string")
                /\ lines' = <<>>
                /\ prevLines' = <<>>
           ELSE IF written # "nil"
           THEN /\ built' = Failed(written)
                /\ lines' = <<>>
                /\ prevLines' = <<>>
           ELSE /\ built' = [doc |-> [From |-> from0, To |-> tos,
                                      Msg |-> Document(hdr, order, msg, records)],
                             err |-> "nil"]
                /\ lines' = order
                /\ prevLines' = lines
    /\ vret' = vret
    /\ UNCHANGED <<lifecycleVars, sendVars, sessionVars, peer>>

\* a build call with any sender, recipients and records, the subject left to the
\* configuration, and any outcome of what it calls; the outcomes of the write
\* steps and of range are drawn only for a call that gets as far as the headers
Build ==
    \E fromArg \in BuildFroms, to \in BuildTos, records \in 0..1, composed \in BOOLEAN :
        IF (Len(to) = 0 /\ splitAndTrim(Config.val.To) = <<>>) \/ NoRecords(records) \/ ~composed
        THEN BuildEmailWithADIFAttachment(fromArg, <<>>, <<"t">>, to, records, composed,
                                          "nil", HeaderKeys)
        ELSE \E written \in WriteOutcomes, order \in RangeOrders :
                BuildEmailWithADIFAttachment(fromArg, <<>>, <<"t">>, to, records, composed,
                                             written, order)

\* ----------------------------------------------------------- specification
\* no Send call has been made
SendIdle ==
    /\ spc = "idle"
    /\ email = ZeroMsg
    /\ from = <<>>
    /\ addr = <<>>
    /\ auth = FALSE
    /\ retries = 0
    /\ delay = Zero64
    /\ attempt = 0
    /\ lastErr = NoErr
    /\ sres = NoResult
    /\ atCall = [called |-> FALSE, ready |-> FALSE, enabled |-> FALSE, failed |-> FALSE]
    /\ calls = 0
    /\ outcomes = <<>>
    /\ sleeps = <<>>
    /\ branch = "none"
    /\ conns = 0
    /\ connOpen = FALSE
    /\ alreadyTLS = FALSE
    /\ tls = FALSE
    /\ didHello = FALSE
    /\ startTLSExt = FALSE
    /\ rcptIdx = 0
    /\ wire = <<>>
    /\ serr = NoErr
    /\ derr = NoErr

\* a second Service on which Initialize has not been called
PeerFresh ==
    [Config |-> [set |-> FALSE, val |-> ZeroConfig], isInitialized |-> FALSE,
     initOnce |-> "fresh"]

\* neither validateConfig nor BuildEmailWithADIFAttachment has been called
DirectIdle ==
    /\ vret = "none"
    /\ bargs = [called |-> FALSE, from |-> <<>>, to |-> <<>>, records |-> 0, composed |-> FALSE]
    /\ built = [doc |-> ZeroMsg, err |-> "none"]
    /\ lines = <<>>
    /\ prevLines = <<>>

\* a freshly constructed Service with its collaborators injected (or not)
Init ==
    /\ LoggerService \in BOOLEAN
    /\ ConfigService \in Providers
    /\ Config = [set |-> FALSE, val |-> ZeroConfig]
    /\ isInitialized = FALSE
    /\ initOnce = "fresh"
    /\ smtpDialTimeout = Seconds(DefaultDialTimeout)
    /\ ipc = [c \in Callers |-> "idle"]
    /\ initErr = [c \in Callers |-> "nil"]
    /\ iret = [c \in Callers |-> "none"]
    /\ setupRuns = 0
    /\ setupErr = "none"
    /\ stores = 0
    /\ SendIdle
    /\ DirectIdle
    /\ peer = PeerFresh

\* a Service on which Initialize has run and succeeded, every caller back from it
InitReady ==
    /\ LoggerService = TRUE
    /\ \E c \in ReadyConfigs :
         /\ ConfigService = [present |-> TRUE, fails |-> FALSE, cfg |-> c]
         /\ Config = [set |-> TRUE, val |-> c]
         /\ smtpDialTimeout = DeriveDialTimeout(c.SmtpDialTimeoutSec)
    /\ isInitialized = TRUE
    /\ initOnce = "done"
    /\ ipc = [c \in Callers |-> "idle"]
    /\ initErr = [c \in Callers |-> "nil"]
    /\ iret = [c \in Callers |-> "nil"]
    /\ setupRuns = 1
    /\ setupErr = "nil"
    /\ stores = 1
    /\ SendIdle
    /\ DirectIdle
    /\ peer = PeerFresh

\* The configs of a Service built the way the package's tests build it: the
\* Config field set by hand and the flag stored, no validation in between.
DirectFroms == { <<>>, <<" ">>, <<"c">>, <<" ", "c">> }

DirectConfigs ==
    { [ZeroConfig EXCEPT !.Enabled = TRUE, !.Host = <<"m">>, !.Port = 587, !.From = f,
                         !.Username = u, !.Password = u, !.SmtpRetryCount = r] :
        f \in DirectFroms, u \in Names, r \in 0..1 }

\* s := &Service{Config: ...}; s.isInitialized.Store(true)
InitDirect ==
    /\ LoggerService = FALSE
    /\ ConfigService = NilProvider
    /\ \E c \in DirectConfigs : Config = [set |-> TRUE, val |-> c]
    /\ isInitialized = TRUE
    /\ initOnce = "fresh"
    /\ smtpDialTimeout = Seconds(DefaultDialTimeout)
    /\ ipc = [c \in Callers |-> "idle"]
    /\ initErr = [c \in Callers |-> "nil"]
    /\ iret = [c \in Callers |-> "none"]
    /\ setupRuns = 0
    /\ setupErr = "none"
    /\ stores = 1
    /\ SendIdle
    /\ DirectIdle
    /\ peer = PeerFresh

\* the configs validateConfig is called on directly
ValidateHosts == Hosts \cup { <<" ">>, <<" ", "m">> }
ValidatePorts == Ports \cup { -1, 1, 65535 }
ValidateNames == Names \cup { <<" ">> }

ValidateConfigs ==
    { [ZeroConfig EXCEPT !.Host = h, !.Port = p, !.From = f, !.Username = u, !.Password = w] :
        h \in ValidateHosts, p \in ValidatePorts, f \in DirectFroms,
        u \in ValidateNames, w \in ValidateNames }

\* s := &Service{Config: ...}
InitValidate ==
    /\ LoggerService = FALSE
    /\ ConfigService = NilProvider
    /\ \E c \in ValidateConfigs : Config = [set |-> TRUE, val |-> c]
    /\ isInitialized = FALSE
    /\ initOnce = "fresh"
    /\ smtpDialTimeout = Seconds(DefaultDialTimeout)
    /\ ipc = [c \in Callers |-> "idle"]
    /\ initErr = [c \in Callers |-> "nil"]
    /\ iret = [c \in Callers |-> "none"]
    /\ setupRuns = 0
    /\ setupErr = "none"
    /\ stores = 0
    /\ SendIdle
    /\ DirectIdle
    /\ peer = PeerFresh

\* the configs of a Service on which the composer is called
BuildConfigs ==
    { [ZeroConfig EXCEPT !.From = f, !.To = t, !.Subject = <<"s">>, !.Body = <<"y">>] :
        f \in Froms, t \in { <<>>, <<" ", ";">>, <<"a", ",", " ", "b">> } }

\* s := &Service{Config: ...}
InitBuild ==
    /\ LoggerService = FALSE
    /\ ConfigService = NilProvider
    /\ \E c \in BuildConfigs : Config = [set |-> TRUE, val |-> c]
    /\ isInitialized = FALSE
    /\ initOnce = "fresh"
    /\ smtpDialTimeout = Seconds(DefaultDialTimeout)
    /\ ipc = [c \in Callers |-> "idle"]
    /\ initErr = [c \in Callers |-> "nil"]
    /\ iret = [c \in Callers |-> "none"]
    /\ setupRuns = 0
    /\ setupErr = "none"
    /\ stores = 0
    /\ SendIdle
    /\ DirectIdle
    /\ peer = PeerFresh

\* the valid configs of the provider in SpecTimeout: every dial timeout
TimeoutConfigs ==
    { c \in ConfigDomain :
        /\ validateConfig(c) = "nil"
        /\ c.Host = <<"m">>
        /\ c.Username = <<>>
        /\ c.SmtpRetryCount = 0
        /\ c.SmtpRetryDelaySec = Zero64 }

\* a freshly constructed Service with a logger and a provider of a valid config
InitTimeout ==
    /\ LoggerService = TRUE
    /\ \E c \in TimeoutConfigs : ConfigService = [present |-> TRUE, fails |-> FALSE, cfg |-> c]
    /\ Config = [set |-> FALSE, val |-> ZeroConfig]
    /\ isInitialized = FALSE
    /\ initOnce = "fresh"
    /\ smtpDialTimeout = Seconds(DefaultDialTimeout)
    /\ ipc = [c \in Callers |-> "idle"]
    /\ initErr = [c \in Callers |-> "nil"]
    /\ iret = [c \in Callers |-> "none"]
    /\ setupRuns = 0
    /\ setupErr = "none"
    /\ stores = 0
    /\ SendIdle
    /\ DirectIdle
    /\ peer = PeerFresh

\* s.validateConfig(op), called on the Service directly
ValidateCall ==
    /\ Config.set
    /\ vret' = validateConfig(Config.val)
    /\ UNCHANGED <<bargs, built, lines, prevLines>>
    /\ UNCHANGED <<lifecycleVars, sendVars, sessionVars, peer>>

\* the configs of the first instance in SpecTwo
TwoConfigs ==
    { c \in ConfigDomain :
        /\ validateConfig(c) = "nil"
        /\ c.Host = <<"m">>
        /\ c.Enabled
        /\ c.SmtpRetryCount = 0
        /\ c.SmtpRetryDelaySec = Zero64
        /\ c.SmtpDialTimeoutSec \in {Zero64, I64(30)} }

\* the providers injected into the second instance
PeerProviders ==
    {NilProvider}
        \cup { [present |-> TRUE, fails |-> FALSE, cfg |-> c] :
                 c \in {ZeroConfig} \cup
                       { [ZeroConfig EXCEPT !.Host = <<"m">>, !.Port = 587, !.From = <<"c">>,
                                            !.SmtpDialTimeoutSec = t] : t \in {Zero64, I64(61)} } }

\* a process with two Service instances: the first ready, every caller back from
\* its Initialize; the second freshly constructed
InitTwo ==
    /\ LoggerService = TRUE
    /\ \E c \in TwoConfigs :
         /\ ConfigService = [present |-> TRUE, fails |-> FALSE, cfg |-> c]
         /\ Config = [set |-> TRUE, val |-> c]
         /\ smtpDialTimeout = DeriveDialTimeout(c.SmtpDialTimeoutSec)
    /\ isInitialized = TRUE
    /\ initOnce = "done"
    /\ ipc = [c \in Callers |-> "idle"]
    /\ initErr = [c \in Callers |-> "nil"]
    /\ iret = [c \in Callers |-> "nil"]
    /\ setupRuns = 1
    /\ setupErr = "nil"
    /\ stores = 1
    /\ SendIdle
    /\ DirectIdle
    /\ peer = PeerFresh

\* Initialize on the second instance, its logger injected and p its config
\* provider, from the call to the return: the body runs once, and when the config
\* is valid it sets the package-level dial timeout
PeerInitialize(p) ==
    /\ ~peer.isInitialized
    /\ DoRuns(peer.initOnce)
    /\ IF ~p.present \/ p.fails
       THEN /\ peer' = [peer EXCEPT !.initOnce = "done"]
            /\ smtpDialTimeout' = smtpDialTimeout
       ELSE IF validateConfig(p.cfg) # "nil"
       THEN /\ peer' = [Config |-> [set |-> TRUE, val |-> MarkDisabled(p.cfg)],
                        isInitialized |-> FALSE, initOnce |-> "done"]
            /\ smtpDialTimeout' = smtpDialTimeout
       ELSE /\ peer' = [Config |-> [set |-> TRUE, val |-> p.cfg], isInitialized |-> TRUE,
                        initOnce |-> "done"]
            /\ smtpDialTimeout' = DeriveDialTimeout(p.cfg.SmtpDialTimeoutSec)
    /\ UNCHANGED <<LoggerService, ConfigService, Config, isInitialized, initOnce, ipc,
                   initErr, iret, setupRuns, setupErr, stores>>
    /\ UNCHANGED <<sendVars, sessionVars, directVars>>

NextInit ==
    \/ \E c \in Callers : InitializeCall(c)
    \/ \E c \in Callers : OnceDo(c)
    \/ \E c \in Callers : SetupDeps(c)
    \/ \E c \in Callers : SetupValidate(c)
    \/ \E c \in Callers : SetupTimeout(c)
    \/ \E c \in Callers : SetupStore(c)
    \/ \E c \in Callers : OnceExit(c)

NextSend ==
    \/ \E m \in Messages : SendCall(m)
    \/ SendLoop
    \/ sendMailWithTLS
    \/ tryImplicitTLS
    \/ tryStartTLS
    \/ BranchReturn
    \/ NewClient
    \/ Hello
    \/ StartTLS
    \/ Auth
    \/ Mail
    \/ Rcpt
    \/ Data
    \/ Write
    \/ CloseData
    \/ Quit
    \/ TransportReturn
    \/ SendReturn

NextTwo ==
    \/ NextSend
    \/ \E p \in PeerProviders : PeerInitialize(p)

Next == NextInit \/ NextSend

\* the service from its construction on: Initialize calls and Send calls interleaved
Spec == Init /\ [][Next]_vars

\* Send calls on a ready service
SpecSend == InitReady /\ [][NextSend]_vars

\* build calls on a service built by hand
SpecBuild == InitBuild /\ [][Build]_vars

\* Send calls on a ready service while a second instance is initialized
SpecTwo == InitTwo /\ [][NextTwo]_vars

\* Initialize calls on a service whose provider holds a valid config
SpecTimeout == InitTimeout /\ [][NextInit]_vars

\* validateConfig called on a service built by hand
SpecValidate == InitValidate /\ [][ValidateCall]_vars

\* Send calls on a service built by hand
SpecDirect == InitDirect /\ [][NextSend]_vars

\* ------------------------------------------------------------------ claims
\* the configured retry count, a negative one counting as 0
N == Max0(Config.val.SmtpRetryCount)

\* a Send call that reached the retry loop has returned
SentAndReturned == spc = "idle" /\ sres # NoResult /\ calls > 0

\* the transport failed on every attempt but the last permitted one
FailsUntilLast == outcomes = [i \in 1..(N + 1) |-> i = N + 1]

\* C1: on a ready, enabled service with retry count N, when the transport fails on
\* every attempt except the last permitted one, Send has invoked it exactly N+1
\* times and returns success; and no invocation ever follows a successful one.
C1_RetryUntilSuccess ==
    /\ \A i \in 1..Len(outcomes) : outcomes[i] => (i = Len(outcomes) /\ calls = i)
    /\ (SentAndReturned /\ FailsUntilLast) => (sres = Ok /\ calls = N + 1)

\* a Send call returned success after MaxRetry failed attempts
C1_Witness ==
    /\ SentAndReturned
    /\ FailsUntilLast
    /\ Config.val.SmtpRetryCount = MaxRetry
    /\ calls = MaxRetry + 1
    /\ sres = Ok

\* C2: on a ready, enabled service with retry count N, when the transport fails on
\* every attempt, Send has invoked it exactly N+1 times and returns the failure
\* "failed to send email" wrapping the error of the final attempt, and no other.
C2_AllFail ==
    (SentAndReturned /\ \A i \in 1..Len(outcomes) : ~outcomes[i]) =>
        /\ calls = N + 1
        /\ Len(outcomes) = N + 1
        /\ derr # NoErr
        /\ derr.attempt = N + 1
        /\ sres = SendErr("failed to send email", derr)

\* a Send call returned the failure of its last attempt after MaxRetry + 1 failures,
\* the last one a rejected HELLO
C2_Witness ==
    /\ SentAndReturned
    /\ Config.val.SmtpRetryCount = MaxRetry
    /\ outcomes = [i \in 1..(MaxRetry + 1) |-> FALSE]
    /\ sres.cause = [kind |-> "hello", attempt |-> MaxRetry + 1]

\* C3: a Send call made on a ready service whose config is disabled returns
\* success at once: no transport attempt and no connection, whatever the message.
C3_DisabledNoop ==
    (atCall.called /\ atCall.ready /\ ~atCall.enabled) =>
        /\ spc = "idle"
        /\ sres = Ok
        /\ calls = 0
        /\ conns = 0
        /\ wire = <<>>

\* Send was called on a ready service with a disabled config and returned success
C3_Witness ==
    /\ atCall.called
    /\ atCall.ready
    /\ ~atCall.enabled
    /\ isInitialized
    /\ setupErr = "nil"
    /\ sres = Ok

\* C4: a Send call made on a service that is not ready returns the "not
\* initialized" error at once, without a transport attempt, whether or not the
\* config the service holds is enabled.
C4_NotInitialized ==
    (atCall.called /\ ~atCall.ready) =>
        /\ spc = "idle"
        /\ sres = SendErr(errMsgNotInitialized, NoErr)
        /\ calls = 0
        /\ conns = 0
        /\ wire = <<>>

\* Send was called on a service that held an enabled config and had not stored its
\* flag yet, and returned "not initialized"
C4_Witness ==
    /\ atCall.called
    /\ ~atCall.ready
    /\ atCall.enabled
    /\ ~atCall.failed
    /\ sres = SendErr(errMsgNotInitialized, NoErr)

\* caller c is back from an Initialize call
Back(c) == ipc[c] = "idle" /\ iret[c] \notin {"none", "pending"}

\* C5: every Initialize call observes the outcome of the single setup execution:
\* it returns nil if the setup succeeded and an error if the setup failed.
C5_AllObserveOutcome ==
    \A c \in Callers :
        (Back(c) /\ setupErr # "none") => ((iret[c] = "nil") <=> (setupErr = "nil"))

\* C6: under any interleaving of Initialize calls the setup body starts at most
\* once and the flag is stored at most once; the flag is set exactly when that one
\* store has happened, and once set it stays set.
C6_SetupOnce ==
    /\ [](setupRuns <= 1 /\ stores <= 1 /\ (isInitialized <=> stores = 1))
    /\ [][isInitialized => isInitialized']_vars

\* two callers are back from Initialize on a ready service, one of them through
\* the Once, and the body ran once
C6_Witness ==
    /\ isInitialized
    /\ setupRuns = 1
    /\ stores = 1
    /\ initOnce = "done"
    /\ \E c, d \in Callers : c # d /\ Back(c) /\ Back(d)

\* C7: a failed setup is permanent: the body is never run again and the flag is
\* never set, every Send call returns "not initialized" without a transport
\* attempt, and a config that failed validation is disabled.
C7_FailurePermanent ==
    /\ [](SetupFailed =>
            /\ ~isInitialized
            /\ setupRuns = 1
            /\ Config.set => ~Config.val.Enabled)
    /\ []((atCall.called /\ atCall.failed) =>
            /\ spc = "idle"
            /\ sres = SendErr(errMsgNotInitialized, NoErr)
            /\ calls = 0
            /\ conns = 0)
    /\ [][SetupFailed => (SetupFailed' /\ setupRuns' = setupRuns)]_vars

\* validation rejected a config that the provider had enabled; a later Initialize
\* call came back without running the body, and a Send call made after the
\* failure came back with "not initialized"
C7_Witness ==
    /\ setupErr = "email host cannot be empty"
    /\ ConfigService.cfg.Enabled
    /\ ~Config.val.Enabled
    /\ setupRuns = 1
    /\ ~isInitialized
    /\ \E c, d \in Callers : c # d /\ Back(c) /\ Back(d)
    /\ atCall.called
    /\ atCall.failed
    /\ sres = SendErr(errMsgNotInitialized, NoErr)

errTLSRequired == "smtp server does not support STARTTLS; TLS required"

\* the positions inside sendWithClient
SessionPcs ==
    {"newClient", "hello", "starttls", "hello2", "auth", "mail", "rcpt", "data", "write",
     "closeData", "quit"}

\* on a connection that was not secured, the relay accepted the first HELLO
\* without advertising STARTTLS
NoStartTLSOffered ==
    /\ branch = "starttls"
    /\ ~tls
    /\ Len(wire) >= 2
    /\ wire[2].cmd = "EHLO"
    /\ wire[2].ok
    /\ ~startTLSExt

\* C8: AUTH, MAIL, RCPT and DATA are issued only on a TLS-secured connection; and
\* when the connection is not secured and the relay does not advertise STARTTLS,
\* nothing is issued after the HELLO and the session fails with "TLS required".
C8_TLSOnly ==
    /\ \A i \in 1..Len(wire) :
         wire[i].cmd \in {"AUTH", "MAIL", "RCPT", "DATA", "PAYLOAD", "."} => wire[i].tls
    /\ spc \in {"auth", "mail", "rcpt", "data", "write", "closeData"} => tls
    /\ NoStartTLSOffered =>
         /\ Len(wire) = 2
         /\ spc = "starttls" \/ serr.kind = errTLSRequired

\* a session with credentials on a plain connection has failed with "TLS required"
C8_Witness ==
    /\ NoStartTLSOffered
    /\ auth
    /\ spc = "sessRet"
    /\ serr.kind = errTLSRequired

\* C9: when the implicit-TLS connection cannot be established, a plain connection
\* to the same address is dialled next and its session runs with alreadyTLS =
\* FALSE; when that dial or session fails, sendMailWithTLS returns that failure
\* without another connection; a sendMailWithTLS call opens at most two.
C9_Fallback ==
    /\ [](/\ conns <= 2
          /\ (branch = "starttls" /\ spc \in SessionPcs) => ~alreadyTLS
          /\ (branch = "starttls" /\ spc = "delivRet") => derr = serr)
    /\ [][(spc = "sessRet" /\ branch = "implicit" /\ serr.kind = "tls dial") =>
            (spc' = "dialPlain" /\ branch' = "starttls" /\ addr' = addr)]_vars
    /\ [][(spc = "sessRet" /\ branch = "starttls") =>
            (spc' = "delivRet" /\ derr' = serr /\ conns' = conns)]_vars

\* the implicit-TLS dial failed, the session on the plain connection ran and
\* failed, and sendMailWithTLS returned its error having opened that one connection
C9_Witness ==
    /\ spc = "delivRet"
    /\ branch = "starttls"
    /\ conns = 1
    /\ wire # <<>>
    /\ derr # NoErr
    /\ derr = serr

\* C10: in a session on a connection that is not secured, when the relay
\* advertises STARTTLS and accepts every command, the session upgrades, says HELLO
\* again, goes on to DATA, and sendMailWithTLS returns nil.
C10_StartTLSDelivers ==
    (/\ spc = "delivRet"
     /\ branch = "starttls"
     /\ Len(wire) >= 3
     /\ wire[3].cmd = "STARTTLS"
     /\ \A i \in 1..Len(wire) : wire[i].ok) =>
        /\ derr = NoErr
        /\ \E i \in 1..Len(wire) : wire[i].cmd = "DATA"

\* the relay accepted the message (the data section was closed successfully) and
\* the QUIT that followed failed
QuitFailed ==
    /\ Len(wire) >= 2
    /\ wire[Len(wire)] = Step("QUIT", "", TRUE, FALSE)
    /\ wire[Len(wire) - 1] = Step(".", "", TRUE, TRUE)

\* C11: once the data section has been closed successfully, a failed QUIT is not
\* an error: the session and sendMailWithTLS return nil, Send returns success, and
\* until Send has returned no further attempt is made and no connection opened.
C11_QuitBestEffort ==
    /\ [](QuitFailed =>
            /\ spc \in {"sessRet", "delivRet", "after", "idle"}
            /\ serr = NoErr
            /\ spc \in {"delivRet", "after", "idle"} => derr = NoErr
            /\ spc \in {"after", "idle"} => outcomes[Len(outcomes)]
            /\ spc = "idle" => sres = Ok)
    /\ [][(QuitFailed /\ spc # "idle") =>
            /\ calls' = calls
            /\ conns' = conns
            /\ wire' = wire
            /\ spc' \in {"delivRet", "after", "idle"}]_vars

\* the QUIT of the first attempt failed on a service configured to retry, and Send
\* returned success after that one attempt on one connection
C11_Witness ==
    /\ QuitFailed
    /\ Config.val.SmtpRetryCount = MaxRetry
    /\ spc = "idle"
    /\ sres = Ok
    /\ calls = 1
    /\ conns = 1

\* the position in the transcript of the step cmd, 0 when it was not taken
StepAt(cmd) ==
    IF \E i \in 1..Len(wire) : wire[i].cmd = cmd
    THEN CHOOSE i \in 1..Len(wire) : wire[i].cmd = cmd /\ \A j \in 1..(i - 1) : wire[j].cmd # cmd
    ELSE 0

\* C12: in a session MAIL is issued once, with the envelope sender, before any
\* RCPT; the k-th RCPT follows it at once and names the k-th recipient; a rejected
\* MAIL or RCPT is the last step of the session; and DATA is issued only after
\* MAIL and one RCPT per recipient, all of them accepted.
C12_RcptOrder ==
    (spc # "idle") =>
        LET m == StepAt("MAIL")
        IN  /\ \A i \in 1..Len(wire) :
                  /\ wire[i].cmd = "MAIL" => (i = m /\ wire[i].arg = from)
                  /\ wire[i].cmd = "RCPT" =>
                        /\ m > 0
                        /\ i > m
                        /\ i - m <= Len(email.To)
                        /\ wire[i].arg = email.To[i - m]
                        /\ \A j \in m..(i - 1) : wire[j].ok
                  /\ (wire[i].cmd \in {"MAIL", "RCPT"} /\ ~wire[i].ok) =>
                        (i = Len(wire) /\ spc = "sessRet" /\ serr # NoErr)
                  /\ wire[i].cmd = "DATA" =>
                        /\ m > 0
                        /\ i = m + Len(email.To) + 1
                        /\ \A j \in m..(i - 1) : wire[j].ok
            /\ rcptIdx <= Len(email.To)

\* the relay accepted the sender and the first recipient and rejected the second:
\* the session has ended with that error, DATA not issued
C12_Witness ==
    /\ spc = "sessRet"
    /\ Len(email.To) >= 2
    /\ Len(wire) >= 2
    /\ wire[Len(wire)] = Step("RCPT", email.To[2], TRUE, FALSE)
    /\ wire[Len(wire) - 1] = Step("RCPT", email.To[1], TRUE, TRUE)
    /\ serr.kind = "rcpt"
    /\ StepAt("DATA") = 0

\* C13: a Send call on a ready, enabled service with a message whose sender is
\* blank (empty or whitespace only) takes the configuration's from address,
\* surrounding whitespace removed, as envelope sender when that is not blank, and
\* every attempt of the call is made with it; when it is blank too, Send returns
\* "email from address cannot be empty" without a transport attempt.
C13_FromDefault ==
    /\ [][\A m \in Messages :
            (spc = "idle" /\ isInitialized /\ Config.val.Enabled
                /\ TrimSpace(m.From) = <<>> /\ SendCall(m)) =>
                IF TrimSpace(Config.val.From) # <<>>
                THEN /\ spc' = "loop"
                     /\ from' = TrimSpace(Config.val.From)
                ELSE /\ spc' = "idle"
                     /\ sres' = SendErr("email from address cannot be empty", NoErr)
                     /\ calls' = 0
                     /\ conns' = 0]_vars
    /\ []((spc # "idle" /\ TrimSpace(email.From) = <<>>) =>
            /\ from = TrimSpace(Config.val.From)
            /\ from # <<>>
            /\ \A i \in 1..Len(wire) : wire[i].cmd = "MAIL" => wire[i].arg = from)

\* the second attempt of a Send call whose message has a whitespace-only sender
\* has declared the configuration's from address
C13_Witness ==
    /\ spc = "delivRet"
    /\ calls = 2
    /\ email.From = <<" ">>
    /\ Config.val.From = <<" ", "c">>
    /\ \E i \in 1..Len(wire) : wire[i].cmd = "MAIL" /\ wire[i].arg = <<"c">>

\* the rules of validation in their order, each TRUE when the config violates it;
\* host, from address, username and password are taken without surrounding
\* whitespace
Violations(cfg) ==
    LET host == TrimSpace(cfg.Host)
        user == TrimSpace(cfg.Username)
        pass == TrimSpace(cfg.Password)
    IN  << host = <<>>,
           Contains(host, " "),
           cfg.Port \notin 1..65535,
           ~SplitHostPort(JoinHostPort(host, Itoa(cfg.Port))).ok,
           TrimSpace(cfg.From) = <<>>,
           (user = <<>>) # (pass = <<>>) >>

\* the error of each rule
RuleError(cfg) ==
    << "email host cannot be empty",
       "email host cannot contain spaces",
       "email port must be between 1 and 65535",
       "invalid host or port for email config",
       "email from address cannot be empty",
       IF TrimSpace(cfg.Username) = <<>>
       THEN "email username must be set when password is provided"
       ELSE "email password must be set when username is provided" >>

\* C14: validateConfig returns nil iff the config violates no rule, and otherwise
\* exactly the error of the first rule violated in the order host non-empty, host
\* without space, port in 1..65535, host:port joinable, from non-empty,
\* username and password both present or both absent; a host holding colons that
\* violates no rule is accepted; and the call changes nothing but its result.
C14_FirstViolation ==
    /\ [](vret # "none" =>
            LET v == Violations(Config.val)
            IN  /\ (vret = "nil") <=> (\A i \in 1..Len(v) : ~v[i])
                /\ \A i \in 1..Len(v) :
                      (v[i] /\ \A j \in 1..(i - 1) : ~v[j]) => vret = RuleError(Config.val)[i])
    /\ [][vret' # vret => UNCHANGED <<lifecycleVars, sendVars, sessionVars, peer>>]_vars

\* validateConfig returned the error of the unjoinable host for a config that
\* also has a blank from address and a password without a username
C14_Witness ==
    /\ vret = "invalid host or port for email config"
    /\ Config.val.Host = <<"a", "]">>
    /\ Config.val.From = <<" ">>
    /\ Config.val.Username = <<>>
    /\ Config.val.Password = <<"u">>
    /\ ~isInitialized

\* the sender a build call resolves: the explicit argument, else the
\* configuration's default
ResolvedSender ==
    IF TrimSpace(bargs.from) # <<>> THEN TrimSpace(bargs.from) ELSE Config.val.From

\* the recipients a build call resolves
ResolvedRecipients ==
    IF bargs.to # <<>> THEN bargs.to ELSE splitAndTrim(Config.val.To)

\* C15: a build call that returns a document gives it the explicit sender, else
\* the configuration's default; and a call whose resolved sender is empty returns
\* an error and no document.
C15_SenderResolved ==
    bargs.called =>
        /\ built.err = "nil" => built.doc.From = ResolvedSender
        /\ ResolvedSender = <<>> => (built.err # "nil" /\ built.doc = ZeroMsg)

\* C16: a build call returns an error whenever its resolved recipients are empty,
\* it is given no record, or the compositor fails; and whenever it returns an
\* error the document it returns is the empty one.
C16_NoPartialDocument ==
    bargs.called =>
        /\ (ResolvedRecipients = <<>> \/ bargs.records = 0 \/ ~bargs.composed) =>
              built.err # "nil"
        /\ built.err # "nil" => built.doc = ZeroMsg
        /\ built.err = "nil" => built.doc.Msg # <<>>

\* a build call with a sender and a recipient but no record returned the error
\* for that and the empty document
C16_Witness ==
    /\ bargs.called
    /\ bargs.from = <<"f">>
    /\ bargs.to # <<>>
    /\ bargs.records = 0
    /\ built = [doc |-> ZeroMsg, err |-> "QSO slice cannot be empty"]

\* C17: two build calls that write the same set of header fields write the
\* header lines in the same order.
C17_StableHeaderOrder ==
    (/\ lines # <<>>
     /\ prevLines # <<>>
     /\ {lines[i] : i \in 1..Len(lines)} = {prevLines[i] : i \in 1..Len(prevLines)}) =>
        lines = prevLines

\* sec seconds clamped to MinDialTimeout..MaxDialTimeout, as a Duration
ClampedSeconds(sec) ==
    IF Lt64(sec, I64(MinDialTimeout)) THEN Seconds(MinDialTimeout)
    ELSE IF Lt64(I64(MaxDialTimeout), sec) THEN Seconds(MaxDialTimeout)
    ELSE Mul64(sec, Second)

\* C18: once Initialize has succeeded the dial timeout is the configured number
\* of seconds clamped to 1s..60s, and 10s when that number is zero or negative.
C18_DialTimeoutClamped ==
    isInitialized =>
        smtpDialTimeout =
            IF Lt64(Zero64, Config.val.SmtpDialTimeoutSec)
            THEN ClampedSeconds(Config.val.SmtpDialTimeoutSec)
            ELSE Seconds(DefaultDialTimeout)

\* C19: a sendMailWithTLS call runs at most one protocol session: it opens the
\* plain connection only when the implicit-TLS connection was not established.
C19_OneSessionPerAttempt ==
    /\ conns <= 1
    /\ spc = "dialPlain" => conns = 0

\* the delay Send waits between attempts: the configured seconds as a Duration,
\* one that is not positive counting as zero
DelayOf == [sec \in Delays |-> RetryDelay(sec)]
ConfiguredDelay == DelayOf[Config.val.SmtpRetryDelaySec]

C21_RecipientsNonEmpty ==
    /\ (spc # "idle" /\ calls > 0) => Len(email.To) > 0
    /\ (\E i \in 1..Len(wire) : wire[i].cmd = "DATA") =>
          (\E j \in 1..Len(wire) : wire[j].cmd = "RCPT" /\ wire[j].ok)

\* C22: whenever a send of an initialized instance is about to dial, the dial
\* timeout is the one derived from that instance's own configuration, whether or
\* not another instance of the process has been initialized.
C22_OwnDialTimeout ==
    (isInitialized /\ spc \in {"dialTLS", "dialPlain"}) =>
        smtpDialTimeout = DeriveDialTimeout(Config.val.SmtpDialTimeoutSec)

\* C23: outside a protocol session no connection of the deliver call is open: the
\* connection a dial opened is closed when its session returns, whether client
\* creation failed, a protocol step failed, or the message was delivered (with a
\* failed QUIT or not), so none is open at the fallback dial or at the return.
C23_ConnectionsClosed == spc \notin SessionPcs => ~connOpen

\* a delivery over one connection whose QUIT failed has returned success, and
\* the connection is closed
C23_Witness ==
    /\ spc = "delivRet"
    /\ derr = NoErr
    /\ QuitFailed
    /\ conns = 1
    /\ ~connOpen

====
